---- MODULE Spec2Model ----
(***************************************************************************)
(* A model of avro-to-json (src/src/lib.rs): the base64 encoder, the       *)
(* Avro-to-JSON value mapper, the JSON colorizer, the output writer and    *)
(* the conversion pipeline that drives them.                               *)
(*                                                                         *)
(* Text is modelled as a sequence of one-character strings; an ANSI style  *)
(* marker written by the `colored` crate is one token of such a sequence.  *)
(***************************************************************************)
EXTENDS Integers, Sequences, FiniteSets, TLC

VARIABLES
    \* base64_encode (lib.rs 143-174)
    bytes,          \* the input slice
    chunk_idx,      \* index of the next chunk of bytes.chunks(3)
    b64_result,     \* the String built so far
    b64_pc,         \* "loop" | "done"
    \* avro_value_to_json (lib.rs 58-141)
    avro_value,     \* the typed value handed to the mapper
    map_result,     \* <<"Pending">>, or the Result the call returned
    \* serde_json's build: Map is a BTreeMap unless the preserve_order
    \* feature is enabled
    preserve_order,
    \* the `colored` crate's SHOULD_COLORIZE, set from the environment
    should_colorize,
    \* colorize_json (lib.rs 176-242)
    json_str,       \* the text scanned
    pos,            \* the characters `chars` has yielded
    in_string,
    escape_next,
    result,         \* the String built so far
    arms,           \* history: per character of json_str consumed, the arm that took it
    col_pc,         \* "scan" | "done"
    \* convert_avro_to_json_with_color (lib.rs 17-56) and main (main.rs 5-59)
    pc,             \* where the call is
    input,          \* what the Avro reader yields: <<"Ok", value>> or <<"Err">> per record
    next_idx,       \* the records the reader has yielded
    records,        \* the Vec of mapped JSON values
    output_file,    \* "None" | "Some"
    pretty,
    as_array,
    color,
    stdout_tty,     \* io::stdout().is_terminal()
    out_file,       \* the bytes of the file at the output path
    out_opened,     \* File::create was called on the output path
    stdout,         \* the bytes written to standard output
    err             \* the context of the error returned, "" if none

\* What each routine leaves alone: the state of the other routines.
notb64 == <<avro_value, map_result, preserve_order, should_colorize, json_str, pos,
            in_string, escape_next, result, arms, col_pc, pc, input, next_idx, records,
            output_file, pretty, as_array, color, stdout_tty, out_file, out_opened,
            stdout, err>>
notmap == <<bytes, chunk_idx, b64_result, b64_pc, should_colorize, json_str, pos,
            in_string, escape_next, result, arms, col_pc, pc, input, next_idx, records,
            output_file, pretty, as_array, color, stdout_tty, out_file, out_opened,
            stdout, err>>
notcol == <<bytes, chunk_idx, b64_result, b64_pc, avro_value, map_result,
            preserve_order, should_colorize, pc, input, next_idx, records,
            output_file, pretty, as_array, color, stdout_tty, out_file, out_opened,
            stdout, err>>
notconv == <<bytes, chunk_idx, b64_result, b64_pc, avro_value, map_result,
             preserve_order, should_colorize, json_str, pos, in_string, escape_next,
             result, arms, col_pc>>
vars ==
    <<bytes, chunk_idx, b64_result, b64_pc, avro_value, map_result, preserve_order,
      should_colorize, json_str, pos, in_string, escape_next, result, arms, col_pc,
      pc, input, next_idx, records, output_file, pretty, as_array, color, stdout_tty,
      out_file, out_opened, stdout, err>>

(***************************************************************************)
(* Bounds                                                                  *)
(***************************************************************************)
MaxLen == 4

(***************************************************************************)
(* Generic helpers                                                         *)
(***************************************************************************)
Min(a, b) == IF a < b THEN a ELSE b

SeqsUpTo(S, n) == UNION {[1..k -> S] : k \in 0..n}

RECURSIVE Flatten(_)
Flatten(ss) == IF ss = <<>> THEN <<>> ELSE Head(ss) \o Flatten(Tail(ss))

\* Bitwise operators on usize values, bit by bit.
RECURSIVE BitAnd(_, _)
BitAnd(a, b) ==
    IF a = 0 \/ b = 0 THEN 0
    ELSE (IF a % 2 = 1 /\ b % 2 = 1 THEN 1 ELSE 0) + 2 * BitAnd(a \div 2, b \div 2)

RECURSIVE BitOr(_, _)
BitOr(a, b) ==
    IF a = 0 THEN b
    ELSE IF b = 0 THEN a
    ELSE (IF a % 2 = 1 \/ b % 2 = 1 THEN 1 ELSE 0) + 2 * BitOr(a \div 2, b \div 2)

RECURSIVE Shl(_, _)
Shl(a, n) == IF n = 0 THEN a ELSE Shl(2 * a, n - 1)

RECURSIVE Shr(_, _)
Shr(a, n) == IF n = 0 THEN a ELSE Shr(a \div 2, n - 1)

(***************************************************************************)
(* base64_encode                                                           *)
(***************************************************************************)
CHARS ==
    << "A","B","C","D","E","F","G","H","I","J","K","L","M",
       "N","O","P","Q","R","S","T","U","V","W","X","Y","Z",
       "a","b","c","d","e","f","g","h","i","j","k","l","m",
       "n","o","p","q","r","s","t","u","v","w","x","y","z",
       "0","1","2","3","4","5","6","7","8","9","+","/" >>

\* CHARS[i] of the code, which indexes from 0.
CharAt(i) == CHARS[i + 1]

\* bytes.chunks(3): the number of chunks, and the k-th chunk (k from 0).
NumChunks(bs) == (Len(bs) + 2) \div 3
Chunk(bs, k) == SubSeq(bs, 3 * k + 1, Min(3 * k + 3, Len(bs)))

\* let mut buf = [0u8; 3]; for (i, &b) in chunk.iter().enumerate() { buf[i] = b; }
ChunkBuf(chunk) == [i \in 1..3 |-> IF i <= Len(chunk) THEN chunk[i] ELSE 0]

\* The third pushed character of a chunk (lines 160-164).
Base64ThirdMutant(chunk, b1, b2) ==
    IF Len(chunk) > 1
    THEN CharAt(BitOr(Shl(BitAnd(b1, 7), 2), Shr(b2, 6)))
    ELSE "="

Base64Third(chunk, b1, b2) ==
    IF Len(chunk) > 1
    THEN CharAt(BitOr(Shl(BitAnd(b1, 15), 2), Shr(b2, 6)))
    ELSE "="

\* The fourth pushed character of a chunk (lines 166-170).
Base64Fourth(chunk, b2) ==
    IF Len(chunk) > 2 THEN CharAt(BitAnd(b2, 63)) ELSE "="

\* The body of the loop over chunks: the four characters pushed for one chunk.
Base64Chunk(chunk) ==
    LET buf == ChunkBuf(chunk)
        b0 == buf[1]
        b1 == buf[2]
        b2 == buf[3]
    IN  << CharAt(Shr(b0, 2)),
           CharAt(BitOr(Shl(BitAnd(b0, 3), 4), Shr(b1, 4))),
           Base64Third(chunk, b1, b2),
           Base64Fourth(chunk, b2) >>

\* base64_encode as a function: the loop run over every chunk in order.
RECURSIVE Base64From(_, _)
Base64From(bs, k) ==
    IF k >= NumChunks(bs) THEN <<>>
    ELSE Base64Chunk(Chunk(bs, k)) \o Base64From(bs, k + 1)

base64_encode(bs) == Base64From(bs, 0)

\* The inputs of the tests test_base64_encode and test_avro_bytes_to_json.
HelloLower == <<104, 101, 108, 108, 111>>
HelloWorld == <<104, 101, 108, 108, 111, 32, 119, 111, 114, 108, 100>>
HelloUpper == <<72, 101, 108, 108, 111>>

ByteSample == {0, 1, 72, 251, 255}

B64Inputs == SeqsUpTo(ByteSample, MaxLen) \cup {HelloLower, HelloWorld, HelloUpper}

B64Init ==
    /\ bytes \in B64Inputs
    /\ chunk_idx = 0
    /\ b64_result = <<>>
    /\ b64_pc = "loop"

\* One iteration of `for chunk in bytes.chunks(3)`.
Base64Step ==
    /\ b64_pc = "loop"
    /\ chunk_idx < NumChunks(bytes)
    /\ b64_result' = b64_result \o Base64Chunk(Chunk(bytes, chunk_idx))
    /\ chunk_idx' = chunk_idx + 1
    /\ UNCHANGED <<bytes, b64_pc>>
    /\ UNCHANGED notb64

\* The iterator is exhausted: `result` is returned.
Base64Return ==
    /\ b64_pc = "loop"
    /\ chunk_idx >= NumChunks(bytes)
    /\ b64_pc' = "done"
    /\ UNCHANGED <<bytes, chunk_idx, b64_result>>
    /\ UNCHANGED notb64

(***************************************************************************)
(* Text helpers                                                            *)
(***************************************************************************)
\* The characters the model uses, in ascending code-point order.
AsciiOrder ==
    << "\n"," ","\"","(",")","+",",","-",".","/",
       "0","1","2","3","4","5","6","7","8","9",":","=",
       "A","B","C","D","E","F","G","H","I","J","K","L","M",
       "N","O","P","Q","R","S","T","U","V","W","X","Y","Z",
       "[","\\","]",
       "a","b","c","d","e","f","g","h","i","j","k","l","m",
       "n","o","p","q","r","s","t","u","v","w","x","y","z",
       "{","}" >>

Ord(c) == CHOOSE i \in 1..Len(AsciiOrder) : AsciiOrder[i] = c

\* String comparison as str's Ord: lexicographic by code point.
RECURSIVE StrLess(_, _)
StrLess(a, b) ==
    IF b = <<>> THEN FALSE
    ELSE IF a = <<>> THEN TRUE
    ELSE IF Head(a) = Head(b) THEN StrLess(Tail(a), Tail(b))
    ELSE Ord(Head(a)) < Ord(Head(b))

Digits == <<"0","1","2","3","4","5","6","7","8","9">>

RECURSIVE NatToStr(_)
NatToStr(n) ==
    IF n < 10 THEN <<Digits[n + 1]>>
    ELSE NatToStr(n \div 10) \o <<Digits[(n % 10) + 1]>>

\* format!("{}", n) of an integer.
IntToStr(n) == IF n < 0 THEN <<"-">> \o NatToStr(0 - n) ELSE NatToStr(n)

(***************************************************************************)
(* Typed (Avro) values and JSON values                                     *)
(*                                                                         *)
(* A value is a record [t |-> variant, v |-> payload] (w: a second         *)
(* payload).  A float is <<class, neg, digits, exp>>: class "finite" names *)
(* the value (-1)^neg * digits * 10^exp, digits being the shortest decimal *)
(* that reads back as the same f64 (one f64 has one such decimal); the     *)
(* other classes are "nan", "inf" and "-inf".  A string is a sequence of   *)
(* characters.  A JSON Number is <<"i", n>> (integer) or <<"f", float>>.   *)
(* A JSON Object is the sequence of its <<key, value>> entries in emission *)
(* order.                                                                  *)
(***************************************************************************)
AvNull == [t |-> "Null"]
AvBoolean(b) == [t |-> "Boolean", v |-> b]
AvInt(i) == [t |-> "Int", v |-> i]
AvLong(l) == [t |-> "Long", v |-> l]
AvFloat(f) == [t |-> "Float", v |-> f]
AvDouble(d) == [t |-> "Double", v |-> d]
AvBytes(bs) == [t |-> "Bytes", v |-> bs]
AvString(s) == [t |-> "String", v |-> s]
AvFixed(n, bs) == [t |-> "Fixed", v |-> bs, w |-> n]
AvEnum(i, sym) == [t |-> "Enum", v |-> sym, w |-> i]
AvUnion(i, x) == [t |-> "Union", v |-> x, w |-> i]
AvArray(xs) == [t |-> "Array", v |-> xs]
AvMap(es) == [t |-> "Map", v |-> es]
AvRecord(fs) == [t |-> "Record", v |-> fs]
AvScalar(tag, n) == [t |-> tag, v |-> n]

JNull == [t |-> "Null"]
JBool(b) == [t |-> "Bool", v |-> b]
JNumber(n) == [t |-> "Number", v |-> n]
JString(s) == [t |-> "String", v |-> s]
JArray(xs) == [t |-> "Array", v |-> xs]
JObject(es) == [t |-> "Object", v |-> es]

Ok(x) == <<"Ok", x>>
Err(e) == <<"Err", e>>
IsOk(r) == r[1] = "Ok"

NaN == <<"nan", FALSE, <<>>, 0>>
PosInf == <<"inf", FALSE, <<>>, 0>>
NegInf == <<"-inf", TRUE, <<>>, 0>>
Finite(neg, digits, exp) == <<"finite", neg, digits, exp>>
IsFinite(f) == f[1] = "finite"

\* 1.5, -0.25, 0.0, 1e30, 2.5e-7, and the f32 nearest 0.1
F_1_5 == Finite(FALSE, <<"1","5">>, -1)
F_m0_25 == Finite(TRUE, <<"2","5">>, -2)
F_0 == Finite(FALSE, <<"0">>, 0)
F_1e30 == Finite(FALSE, <<"1">>, 30)
F_2_5em7 == Finite(FALSE, <<"2","5">>, -8)
F_0_1f32 ==
    Finite(FALSE, <<"1","0","0","0","0","0","0","0","1","4","9","0","1","1","6","1","2">>, -17)

\* `*f as f64`: widening is exact, the f64 is of the class and value of the f32.
F32AsF64(f) == <<f[1], f[2], f[3], f[4]>>

\* serde_json::Number::from_f64: Some(number) for a finite value, else None.
FromF64(f) == IF IsFinite(f) THEN <<"Some", <<"f", f>>>> ELSE <<"None">>

\* serde_json::Map::insert.  Without preserve_order the map is a BTreeMap (keys
\* kept sorted); with it an IndexMap (keys kept in first-insertion order).
\* Either way an existing key keeps its place and takes the new value.
MapInsert(es, k, x) ==
    IF \E i \in 1..Len(es) : es[i][1] = k
    THEN [i \in 1..Len(es) |-> IF es[i][1] = k THEN <<k, x>> ELSE es[i]]
    ELSE IF preserve_order
    THEN Append(es, <<k, x>>)
    ELSE LET n == Cardinality({i \in 1..Len(es) : StrLess(es[i][1], k)})
         IN  SubSeq(es, 1, n) \o <<<<k, x>>>> \o SubSeq(es, n + 1, Len(es))

\* .map(Value::Number).unwrap_or(Value::Null) of lines 66-75.
FloatToJsonMutant(n) == IF n[1] = "Some" THEN Ok(JNumber(n[2])) ELSE Err("not finite")

FloatToJson(n) == IF n[1] = "Some" THEN Ok(JNumber(n[2])) ELSE Ok(JNull)

\* The Union arm, line 86: the inner call's result, `?` applied, is the value.
UnionToJsonMutant(r) == IF IsOk(r) THEN Ok(JArray(<<r[2]>>)) ELSE r

UnionToJson(r) == IF IsOk(r) THEN Ok(r[2]) ELSE r

\* Uuid::to_string: 32 lower-case hex digits, hyphenated 8-4-4-4-12.
UuidToString(h) ==
    SubSeq(h, 1, 8) \o <<"-">> \o SubSeq(h, 9, 12) \o <<"-">> \o SubSeq(h, 13, 16)
        \o <<"-">> \o SubSeq(h, 17, 20) \o <<"-">> \o SubSeq(h, 21, 32)

\* {:?} of a Duration component: the newtype's name around its number.
DebugComponent(name, n) == name \o <<"(">> \o NatToStr(n) \o <<")">>

RECURSIVE avro_value_to_json(_)
\* The loop of lines 89-91: the items mapped in order, `?` stopping at an error.
RECURSIVE MapItems(_, _)
MapItems(arr, acc) ==
    IF arr = <<>> THEN Ok(acc)
    ELSE LET r == avro_value_to_json(Head(arr))
         IN  IF IsOk(r) THEN MapItems(Tail(arr), Append(acc, r[2])) ELSE r

\* The loops of lines 96-98 and 103-105: each entry mapped and inserted.
RECURSIVE MapEntries(_, _)
MapEntries(fields, obj) ==
    IF fields = <<>> THEN Ok(obj)
    ELSE LET r == avro_value_to_json(Head(fields)[2])
         IN  IF IsOk(r)
             THEN MapEntries(Tail(fields), MapInsert(obj, Head(fields)[1], r[2]))
             ELSE r

avro_value_to_json(a) ==
    CASE a.t = "Null" -> Ok(JNull)
      [] a.t = "Boolean" -> Ok(JBool(a.v))
      [] a.t = "Int" -> Ok(JNumber(<<"i", a.v>>))
      [] a.t = "Long" -> Ok(JNumber(<<"i", a.v>>))
      [] a.t = "Float" -> FloatToJson(FromF64(F32AsF64(a.v)))
      [] a.t = "Double" -> FloatToJson(FromF64(a.v))
      [] a.t = "Bytes" -> Ok(JString(base64_encode(a.v)))
      [] a.t = "String" -> Ok(JString(a.v))
      [] a.t = "Fixed" -> Ok(JString(base64_encode(a.v)))
      [] a.t = "Enum" -> Ok(JString(a.v))
      [] a.t = "Union" -> UnionToJson(avro_value_to_json(a.v))
      [] a.t = "Array" ->
            LET r == MapItems(a.v, <<>>) IN IF IsOk(r) THEN Ok(JArray(r[2])) ELSE r
      [] a.t = "Map" ->
            LET r == MapEntries(a.v, <<>>) IN IF IsOk(r) THEN Ok(JObject(r[2])) ELSE r
      [] a.t = "Record" ->
            LET r == MapEntries(a.v, <<>>) IN IF IsOk(r) THEN Ok(JObject(r[2])) ELSE r
      [] a.t = "Date" ->
            Ok(JString(<<"d","a","y","s","-","s","i","n","c","e","-","e","p","o","c","h",":">>
                        \o IntToStr(a.v)))
      [] a.t = "TimeMillis" ->
            Ok(JString(<<"t","i","m","e","-","m","i","l","l","i","s",":">> \o IntToStr(a.v)))
      [] a.t = "TimeMicros" ->
            Ok(JString(<<"t","i","m","e","-","m","i","c","r","o","s",":">> \o IntToStr(a.v)))
      [] a.t = "TimestampMillis" ->
            Ok(JString(<<"t","i","m","e","s","t","a","m","p","-","m","i","l","l","i","s",":">>
                        \o IntToStr(a.v)))
      [] a.t = "TimestampMicros" ->
            Ok(JString(<<"t","i","m","e","s","t","a","m","p","-","m","i","c","r","o","s",":">>
                        \o IntToStr(a.v)))
      [] a.t = "Decimal" ->
            \* {:?} of the Decimal: the value carries its debug rendering
            Ok(JString(<<"d","e","c","i","m","a","l",":">> \o a.v))
      [] a.t = "Uuid" -> Ok(JString(UuidToString(a.v)))
      [] a.t = "Duration" ->
            Ok(JString(<<"d","u","r","a","t","i","o","n",":">>
                        \o DebugComponent(<<"M","o","n","t","h","s">>, a.v[1]) \o <<":">>
                        \o DebugComponent(<<"D","a","y","s">>, a.v[2]) \o <<":">>
                        \o DebugComponent(<<"M","i","l","l","i","s">>, a.v[3])))
      [] a.t = "LocalTimestampMillis" ->
            Ok(JString(<<"l","o","c","a","l","-","t","i","m","e","s","t","a","m","p","-",
                         "m","i","l","l","i","s",":">> \o IntToStr(a.v)))
      [] a.t = "LocalTimestampMicros" ->
            Ok(JString(<<"l","o","c","a","l","-","t","i","m","e","s","t","a","m","p","-",
                         "m","i","c","r","o","s",":">> \o IntToStr(a.v)))

(***************************************************************************)
(* The mapper's inputs                                                     *)
(***************************************************************************)
MaxDepth == 1

John == <<"J","o","h","n">>
KeyName == <<"n","a","m","e">>
KeyAge == <<"a","g","e">>
Names == {KeyName, KeyAge}
SampleUuid ==
    <<"6","7","e","5","5","0","4","4","1","0","b","1","4","2","6","f",
      "9","2","4","7","b","b","6","8","0","e","5","f","e","0","c","8">>
SampleDecimalDebug == <<"D","e","c","i","m","a","l","(","1","2","3",")">>

\* One or more values of every variant that holds no other value.
Leaves ==
    { AvNull, AvBoolean(TRUE), AvBoolean(FALSE), AvInt(30), AvInt(-7), AvLong(70000),
      AvFloat(F_1_5), AvFloat(F_0_1f32), AvFloat(NaN), AvFloat(PosInf), AvFloat(NegInf),
      AvDouble(F_m0_25), AvDouble(F_0), AvDouble(F_1e30), AvDouble(F_2_5em7),
      AvDouble(NaN), AvDouble(PosInf), AvDouble(NegInf),
      AvBytes(HelloUpper), AvBytes(<<>>), AvString(John), AvString(<<>>),
      AvFixed(2, <<251, 255>>), AvEnum(1, <<"R","E","D">>),
      AvScalar("Date", 19000), AvScalar("TimeMillis", 1), AvScalar("TimeMicros", 2),
      AvScalar("TimestampMillis", -3), AvScalar("TimestampMicros", 4),
      AvScalar("Decimal", SampleDecimalDebug), AvScalar("Uuid", SampleUuid),
      AvScalar("Duration", <<1, 2, 3>>),
      AvScalar("LocalTimestampMillis", 5), AvScalar("LocalTimestampMicros", 6) }

\* The values containers are filled with.
CoreLeaves == {AvDouble(NaN), AvString(John), AvInt(30)}

\* The lengths of the containers drawn.
ContainerLens == {0, 1, 2}

SeqsOf(S) == UNION {[1..k -> S] : k \in ContainerLens}

UniqueKeys(es) == \A i, j \in 1..Len(es) : es[i][1] = es[j][1] => i = j

\* Every Union, Array, Record and Map over the values S.  A Record is the Vec of its
\* fields; a Map is the entries of the HashMap in the order its iterator yields them.
Wrap(S) ==
    {AvUnion(1, x) : x \in S}
        \cup {AvArray(xs) : xs \in SeqsOf(S)}
        \cup {AvRecord(fs) : fs \in SeqsOf(Names \X S)}
        \cup {AvMap(es) : es \in {e \in SeqsOf(Names \X S) : UniqueKeys(e)}}

RECURSIVE Core(_)
Core(d) == IF d = 0 THEN CoreLeaves ELSE CoreLeaves \cup Wrap(Core(d - 1))

AvroValues == Leaves \cup (IF MaxDepth = 0 THEN {} ELSE Wrap(Core(MaxDepth - 1)))

MapInit ==
    /\ avro_value \in AvroValues
    /\ map_result = <<"Pending">>
    /\ preserve_order \in BOOLEAN

\* A call avro_value_to_json(&avro_value) and its return.
MapValue ==
    /\ map_result[1] = "Pending"
    /\ map_result' = avro_value_to_json(avro_value)
    /\ UNCHANGED <<avro_value, preserve_order>>
    /\ UNCHANGED notmap

(***************************************************************************)
(* serde_json::to_string and to_string_pretty                              *)
(***************************************************************************)
Zeros(n) == [i \in 1..n |-> "0"]

\* ryu's rendering of a finite f64 from its shortest decimal digits * 10^exp.
FloatToStr(f) ==
    LET ds == f[3]
        k == f[4]
        len == Len(ds)
        kk == len + k
        sign == IF f[2] THEN <<"-">> ELSE <<>>
    IN  IF ds = <<"0">> THEN sign \o <<"0", ".", "0">>
        ELSE IF 0 <= k /\ kk <= 16 THEN sign \o ds \o Zeros(k) \o <<".", "0">>
        ELSE IF 0 < kk /\ kk <= 16
        THEN sign \o SubSeq(ds, 1, kk) \o <<".">> \o SubSeq(ds, kk + 1, len)
        ELSE IF -5 < kk /\ kk <= 0 THEN sign \o <<"0", ".">> \o Zeros(0 - kk) \o ds
        ELSE IF len = 1 THEN sign \o ds \o <<"e">> \o IntToStr(kk - 1)
        ELSE sign \o <<ds[1], ".">> \o SubSeq(ds, 2, len) \o <<"e">> \o IntToStr(kk - 1)

NumberToStr(n) == IF n[1] = "i" THEN IntToStr(n[2]) ELSE FloatToStr(n[2])

\* format_escaped_str_contents: the escape of one character of a string.
EscapeChar(c) ==
    CASE c = "\"" -> <<"\\", "\"">>
      [] c = "\\" -> <<"\\", "\\">>
      [] c = "\n" -> <<"\\", "n">>
      [] OTHER -> <<c>>

StringToStr(str) ==
    <<"\"">> \o Flatten([i \in 1..Len(str) |-> EscapeChar(str[i])]) \o <<"\"">>

\* The items joined by a separator.
RECURSIVE Join(_, _)
Join(items, sep) ==
    IF items = <<>> THEN <<>>
    ELSE IF Len(items) = 1 THEN items[1]
    ELSE items[1] \o sep \o Join(Tail(items), sep)

\* serde_json::to_string: CompactFormatter.
RECURSIVE to_string(_)
to_string(j) ==
    CASE j.t = "Null" -> <<"n","u","l","l">>
      [] j.t = "Bool" -> IF j.v THEN <<"t","r","u","e">> ELSE <<"f","a","l","s","e">>
      [] j.t = "Number" -> NumberToStr(j.v)
      [] j.t = "String" -> StringToStr(j.v)
      [] j.t = "Array" ->
            <<"[">> \o Join([i \in 1..Len(j.v) |-> to_string(j.v[i])], <<",">>) \o <<"]">>
      [] j.t = "Object" ->
            <<"{">>
                \o Join([i \in 1..Len(j.v) |->
                            StringToStr(j.v[i][1]) \o <<":">> \o to_string(j.v[i][2])],
                        <<",">>)
                \o <<"}">>

Indent(d) == [i \in 1..(2 * d) |-> " "]

\* serde_json::to_string_pretty: PrettyFormatter, two spaces a level.
RECURSIVE PrettyAt(_, _)
PrettyAt(j, d) ==
    CASE j.t = "Array" ->
            IF j.v = <<>> THEN <<"[", "]">>
            ELSE <<"[", "\n">>
                    \o Join([i \in 1..Len(j.v) |-> Indent(d + 1) \o PrettyAt(j.v[i], d + 1)],
                            <<",", "\n">>)
                    \o <<"\n">> \o Indent(d) \o <<"]">>
      [] j.t = "Object" ->
            IF j.v = <<>> THEN <<"{", "}">>
            ELSE <<"{", "\n">>
                    \o Join([i \in 1..Len(j.v) |->
                                Indent(d + 1) \o StringToStr(j.v[i][1]) \o <<":", " ">>
                                    \o PrettyAt(j.v[i][2], d + 1)],
                            <<",", "\n">>)
                    \o <<"\n">> \o Indent(d) \o <<"}">>
      [] OTHER -> to_string(j)

to_string_pretty(j) == PrettyAt(j, 0)

(***************************************************************************)
(* colorize_json                                                           *)
(***************************************************************************)
\* The escape sequences of the `colored` crate, one token each.
Sgr(style) ==
    CASE style = "red" -> "ESC[31m"
      [] style = "green" -> "ESC[32m"
      [] style = "yellow" -> "ESC[33m"
      [] style = "blue" -> "ESC[34m"
      [] style = "purple" -> "ESC[35m"
      [] style = "cyan" -> "ESC[36m"
      [] style = "white" -> "ESC[37m"

SgrReset == "ESC[0m"

StyleMarkers ==
    {Sgr(c) : c \in {"red", "green", "yellow", "blue", "purple", "cyan", "white"}}
        \cup {SgrReset}

\* text.color().to_string(): the text between its colour's sequence and the reset,
\* or the bare text when the crate's SHOULD_COLORIZE says no (NO_COLOR, CLICOLOR).
Paint(style, text) ==
    IF should_colorize THEN <<Sgr(style)>> \o text \o <<SgrReset>> ELSE text

IsAsciiDigit(c) == c \in {"0","1","2","3","4","5","6","7","8","9"}

IsAlphabetic(c) ==
    c \in {"a","b","c","d","e","f","g","h","i","j","k","l","m",
           "n","o","p","q","r","s","t","u","v","w","x","y","z",
           "A","B","C","D","E","F","G","H","I","J","K","L","M",
           "N","O","P","Q","R","S","T","U","V","W","X","Y","Z"}

IsNumberStart(c) == IsAsciiDigit(c) \/ c = "." \/ c = "-"

IsNumberPart(c) == IsAsciiDigit(c) \/ c \in {".", "e", "E", "+", "-"}

\* The inner `while let Some(&next_ch) = chars.peek()` loops: the number of
\* characters from position p (1-based) on that the look-ahead takes.
RECURSIVE TakeNumber(_, _)
TakeNumber(text, p) ==
    IF p <= Len(text) /\ IsNumberPart(text[p]) THEN 1 + TakeNumber(text, p + 1) ELSE 0

RECURSIVE TakeKeyword(_, _)
TakeKeyword(text, p) ==
    IF p <= Len(text) /\ IsAlphabetic(text[p]) THEN 1 + TakeKeyword(text, p + 1) ELSE 0

\* The styling of a keyword run (lines 229-233).
KeywordOut(keyword) ==
    IF keyword \in {<<"t","r","u","e">>, <<"f","a","l","s","e">>} THEN Paint("red", keyword)
    ELSE IF keyword = <<"n","u","l","l">> THEN Paint("purple", keyword)
    ELSE keyword

\* The quote arm's guard, line 186.
QuoteArmMutant(ch, esc) == ch = "\""

QuoteArm(ch, esc) == ch = "\"" /\ ~esc

\* The number arm's `number` (lines 209-216): ch and every character the
\* look-ahead took, n characters from position `at` on.
NumberTextMutant(text, at, n) == SubSeq(text, at + 1, at + 1)

NumberText(text, at, n) == SubSeq(text, at + 1, at + n)

\* One iteration of `while let Some(ch) = chars.next()`: `at` characters are
\* consumed, ch is the next one.  n: the characters this iteration consumes; ins,
\* esc: in_string and escape_next after it; out: what it pushes on result; arm:
\* the match arm taken.
ScanStep(text, at, ins, esc) ==
    LET ch == text[at + 1]
    IN  IF QuoteArm(ch, esc)
        THEN [n |-> 1, ins |-> ~ins, esc |-> esc, out |-> Paint("green", <<ch>>),
              arm |-> "quote"]
        ELSE IF ch = "\\" /\ ins /\ ~esc
        THEN [n |-> 1, ins |-> ins, esc |-> TRUE, out |-> Paint("yellow", <<ch>>),
              arm |-> "escape"]
        ELSE IF ins
        THEN [n |-> 1, ins |-> ins, esc |-> FALSE, out |-> Paint("green", <<ch>>),
              arm |-> "string"]
        ELSE IF ch = ":"
        THEN [n |-> 1, ins |-> ins, esc |-> esc, out |-> Paint("cyan", <<ch>>),
              arm |-> "colon"]
        ELSE IF ch = ","
        THEN [n |-> 1, ins |-> ins, esc |-> esc, out |-> Paint("white", <<ch>>),
              arm |-> "comma"]
        ELSE IF ch \in {"{", "}", "[", "]"}
        THEN [n |-> 1, ins |-> ins, esc |-> esc, out |-> Paint("blue", <<ch>>),
              arm |-> "bracket"]
        ELSE IF IsNumberStart(ch)
        THEN LET n == 1 + TakeNumber(text, at + 2)
             IN  [n |-> n, ins |-> ins, esc |-> esc,
                  out |-> Paint("yellow", NumberText(text, at, n)),
                  arm |-> "number"]
        ELSE IF IsAlphabetic(ch)
        THEN LET n == 1 + TakeKeyword(text, at + 2)
             IN  [n |-> n, ins |-> ins, esc |-> esc,
                  out |-> KeywordOut(SubSeq(text, at + 1, at + n)),
                  arm |-> "keyword"]
        ELSE [n |-> 1, ins |-> ins, esc |-> esc, out |-> <<ch>>, arm |-> "other"]

\* The iterations of the loop that start before position `upto`, from the scan
\* state st = [at, ins, esc, out] on.  The range is run by halves, which is the
\* same iterations in the same order (a look-ahead may end past `upto`).
RECURSIVE ColorizeFrom(_, _, _)
ColorizeFrom(text, st, upto) ==
    IF st.at >= upto THEN st
    ELSE IF upto - st.at = 1
    THEN LET step == ScanStep(text, st.at, st.ins, st.esc)
         IN  [at |-> st.at + step.n, ins |-> step.ins, esc |-> step.esc,
              out |-> st.out \o step.out]
    ELSE ColorizeFrom(text, ColorizeFrom(text, st, (st.at + upto) \div 2), upto)

\* colorize_json as a function: the loop run until chars.next() is None.
colorize_json(text) ==
    ColorizeFrom(text, [at |-> 0, ins |-> FALSE, esc |-> FALSE, out |-> <<>>], Len(text)).out

(***************************************************************************)
(* colorize_json, step by step                                             *)
(***************************************************************************)
MaxText == 3

ScanAlphabet == {"\"", "\\", "1", "-", "e", "a", ":", " "}

ColInit ==
    /\ pos = 0
    /\ in_string = FALSE
    /\ escape_next = FALSE
    /\ result = <<>>
    /\ arms = <<>>
    /\ col_pc = "scan"

\* One iteration of the loop of lines 184-239.
ColorizeStep ==
    /\ col_pc = "scan"
    /\ pos < Len(json_str)
    /\ LET st == ScanStep(json_str, pos, in_string, escape_next)
       IN  /\ pos' = pos + st.n
           /\ in_string' = st.ins
           /\ escape_next' = st.esc
           /\ result' = result \o st.out
           /\ arms' = arms \o [i \in 1..st.n |-> st.arm]
    /\ UNCHANGED <<json_str, col_pc>>
    /\ UNCHANGED notcol

\* chars.next() is None: `result` is returned.
ColorizeReturn ==
    /\ col_pc = "scan"
    /\ pos >= Len(json_str)
    /\ col_pc' = "done"
    /\ UNCHANGED <<json_str, pos, in_string, escape_next, result, arms>>
    /\ UNCHANGED notcol

(***************************************************************************)
(* write_json_output                                                       *)
(***************************************************************************)
\* line 254
UseColor(c, tty) == c /\ tty

\* writeln!(output, "{}", text)
WriteLnMutant(text) == text

WriteLn(text) == text \o <<"\n">>

\* lines 259-263 and 274-278
Serialize(j, p) == IF p THEN to_string_pretty(j) ELSE to_string(j)

\* lines 265-270 and 280-285: one unit written, coloured or not
WriteUnit(text, use_color) ==
    IF use_color THEN WriteLn(colorize_json(text)) ELSE WriteLn(text)

\* The loop of lines 273-286.
NdjsonUnitsMutant(recs, p, use_color) ==
    Flatten([i \in 1..(Len(recs) - 1) |-> WriteUnit(Serialize(recs[i], p), use_color)])

NdjsonUnits(recs, p, use_color) ==
    Flatten([i \in 1..Len(recs) |-> WriteUnit(Serialize(recs[i], p), use_color)])

\* Everything write_json_output writes to `output`.
write_json_output(recs, p, arr, c, tty) ==
    LET use_color == UseColor(c, tty)
    IN  IF arr
        THEN WriteUnit(Serialize(JArray(recs), p), use_color)
        ELSE NdjsonUnits(recs, p, use_color)

(***************************************************************************)
(* convert_avro_to_json_with_color and main                                *)
(***************************************************************************)
MaxRecords == 2

\* A string of a quote, a backslash, a newline and characters that are JSON syntax.
Tricky == <<"t", "\"", "\\", "\n", "1", ":", ",", "{", "e">>

\* The values a file's records are drawn from.
FilePool ==
    { AvRecord(<< <<KeyName, AvString(John)>>, <<KeyAge, AvInt(30)>> >>),
      AvRecord(<< <<KeyAge, AvString(Tricky)>>,
                  <<KeyName, AvUnion(1, AvDouble(F_2_5em7))>> >>),
      AvArray(<<AvDouble(NaN), AvBoolean(TRUE), AvNull, AvInt(-7)>>),
      AvRecord(<<>>) }

FileItems == {<<"Ok", x>> : x \in FilePool} \cup {<<"Err">>}

\* What is at the output path before the run.
OldContent == <<"OLD">>

ConvInit ==
    /\ pc = "start"
    /\ input \in SeqsUpTo(FileItems, MaxRecords)
    /\ next_idx = 0
    /\ records = <<>>
    /\ output_file \in {"None", "Some"}
    /\ pretty \in BOOLEAN
    /\ as_array \in BOOLEAN
    /\ color \in BOOLEAN
    /\ stdout_tty \in BOOLEAN
    /\ out_file = OldContent
    /\ out_opened = FALSE
    /\ stdout = <<>>
    /\ err = ""

Fail(context) ==
    /\ pc' = "error"
    /\ err' = context
    /\ UNCHANGED <<input, next_idx, records, output_file, pretty, as_array, color,
                   stdout_tty, out_file, out_opened, stdout>>
    /\ UNCHANGED notconv

Goto(label) ==
    /\ pc' = label
    /\ UNCHANGED <<input, next_idx, records, output_file, pretty, as_array, color,
                   stdout_tty, out_file, out_opened, stdout, err>>
    /\ UNCHANGED notconv

\* File::open(input_path), lines 26-27
OpenInput == pc = "start" /\ Goto("opened")

OpenInputFails == pc = "start" /\ Fail("Failed to open input file")

\* Reader::new(reader), lines 30-31
NewReader == pc = "opened" /\ Goto("reading")

NewReaderFails == pc = "opened" /\ Fail("Failed to create Avro reader")

\* One iteration of `for record in avro_reader` on a record that decodes, lines 36-40.
ReadRecord ==
    /\ pc = "reading"
    /\ next_idx < Len(input)
    /\ input[next_idx + 1][1] = "Ok"
    /\ LET r == avro_value_to_json(input[next_idx + 1][2])
       IN  IF IsOk(r)
           THEN /\ records' = Append(records, r[2])
                /\ next_idx' = next_idx + 1
                /\ UNCHANGED <<pc, err>>
           ELSE /\ pc' = "error"
                /\ err' = r[2]
                /\ UNCHANGED <<records, next_idx>>
    /\ UNCHANGED <<input, output_file, pretty, as_array, color, stdout_tty, out_file,
                   out_opened, stdout>>
    /\ UNCHANGED notconv

\* The iteration on a record that does not decode, line 37.
DecodeFailsMutant ==
    /\ pc = "reading"
    /\ next_idx < Len(input)
    /\ input[next_idx + 1][1] = "Err"
    /\ next_idx' = next_idx + 1
    /\ err' = "Failed to read Avro record"
    /\ UNCHANGED <<pc, input, records, output_file, pretty, as_array, color, stdout_tty,
                   out_file, out_opened, stdout>>
    /\ UNCHANGED notconv

DecodeFails ==
    /\ pc = "reading"
    /\ next_idx < Len(input)
    /\ input[next_idx + 1][1] = "Err"
    /\ Fail("Failed to read Avro record")

\* The reader is exhausted.
EndOfRecords ==
    /\ pc = "reading"
    /\ next_idx = Len(input)
    /\ Goto("collected")

\* File::create(output_path), lines 43-46
CreateOutput ==
    /\ pc = "collected"
    /\ output_file = "Some"
    /\ pc' = "writing"
    /\ out_opened' = TRUE
    /\ out_file' = <<>>
    /\ UNCHANGED <<input, next_idx, records, output_file, pretty, as_array, color,
                   stdout_tty, stdout, err>>
    /\ UNCHANGED notconv

CreateOutputFails ==
    /\ pc = "collected"
    /\ output_file = "Some"
    /\ Fail("Failed to create output file")

\* Box::new(std::io::stdout()), line 48
UseStdout ==
    /\ pc = "collected"
    /\ output_file = "None"
    /\ Goto("writing")

\* write_json_output(output, records, pretty, as_array, color), lines 52-55, the
\* BufWriter flushed when it is dropped.
WriteOutput ==
    /\ pc = "writing"
    /\ LET written == write_json_output(records, pretty, as_array, color, stdout_tty)
       IN  IF output_file = "Some"
           THEN out_file' = out_file \o written /\ UNCHANGED stdout
           ELSE stdout' = stdout \o written /\ UNCHANGED out_file
    /\ pc' = "done"
    /\ UNCHANGED <<input, next_idx, records, output_file, pretty, as_array, color,
                   stdout_tty, out_opened, err>>
    /\ UNCHANGED notconv

\* main.rs 57: println! after the conversion returned Ok
MainPrintln ==
    /\ pc = "done"
    /\ stdout' = stdout \o <<"Conversion completed successfully!", "\n">>
    /\ pc' = "exit"
    /\ UNCHANGED <<input, next_idx, records, output_file, pretty, as_array, color,
                   stdout_tty, out_file, out_opened, err>>
    /\ UNCHANGED notconv

(***************************************************************************)
(* Specifications                                                          *)
(***************************************************************************)
B64Idle == bytes = <<>> /\ chunk_idx = 0 /\ b64_result = <<>> /\ b64_pc = "idle"
MapIdle == avro_value = AvNull /\ map_result = <<"Idle">>
ColIdle == json_str = <<>> /\ ColInit
ConvIdle ==
    /\ pc = "idle"
    /\ input = <<>>
    /\ next_idx = 0
    /\ records = <<>>
    /\ output_file = "None"
    /\ pretty = FALSE
    /\ as_array = FALSE
    /\ color = FALSE
    /\ stdout_tty = FALSE
    /\ out_file = OldContent
    /\ out_opened = FALSE
    /\ stdout = <<>>
    /\ err = ""

\* base64_encode run on every input.
B64Next ==
    \/ Base64Step
    \/ Base64Return

InitB64 ==
    /\ B64Init /\ MapIdle /\ ColIdle /\ ConvIdle
    /\ preserve_order = FALSE /\ should_colorize = FALSE

SpecB64 == InitB64 /\ [][B64Next]_vars

\* avro_value_to_json run on every input, under either build of serde_json.
MapNext == MapValue

InitMap ==
    /\ MapInit /\ B64Idle /\ ColIdle /\ ConvIdle
    /\ should_colorize = FALSE

SpecMap == InitMap /\ [][MapNext]_vars

\* colorize_json run on arbitrary text and on the writer's serializations.
WellFormedTexts ==
    UNION {{to_string(r[2]), to_string_pretty(r[2]),
            to_string(JArray(<<r[2]>>)), to_string_pretty(JArray(<<r[2], r[2]>>))} :
           r \in {avro_value_to_json(x) : x \in FilePool \cup Leaves}}

ColorInputs == SeqsUpTo(ScanAlphabet, MaxText) \cup WellFormedTexts

ColNext ==
    \/ ColorizeStep
    \/ ColorizeReturn

InitColor ==
    /\ preserve_order \in BOOLEAN /\ should_colorize \in BOOLEAN
    /\ json_str \in ColorInputs /\ ColInit
    /\ B64Idle /\ MapIdle /\ ConvIdle

SpecColor == InitColor /\ [][ColNext]_vars

\* The whole conversion, as main runs it.
Next ==
    \/ OpenInput
    \/ OpenInputFails
    \/ NewReader
    \/ NewReaderFails
    \/ ReadRecord
    \/ DecodeFails
    \/ EndOfRecords
    \/ CreateOutput
    \/ CreateOutputFails
    \/ UseStdout
    \/ WriteOutput
    \/ MainPrintln

Init ==
    /\ preserve_order \in BOOLEAN /\ should_colorize \in BOOLEAN
    /\ ConvInit /\ B64Idle /\ MapIdle /\ ColIdle

Spec == Init /\ [][Next]_vars

(***************************************************************************)
(* RFC 4648, section 4, stated on bit strings                              *)
(***************************************************************************)
Pow2(n) == Shl(1, n)

Bits8(b) == [i \in 1..8 |-> (b \div Pow2(8 - i)) % 2]

BitString(bs) == Flatten([i \in 1..Len(bs) |-> Bits8(bs[i])])

\* The bit string zero-padded on the right to a multiple of six bits.
PadToSextets(bits) == bits \o [i \in 1..((6 - (Len(bits) % 6)) % 6) |-> 0]

SextetValue(bits, k) ==
    32 * bits[6*k + 1] + 16 * bits[6*k + 2] + 8 * bits[6*k + 3]
        + 4 * bits[6*k + 4] + 2 * bits[6*k + 5] + bits[6*k + 6]

Rfc4648(bs) ==
    LET bits == PadToSextets(BitString(bs))
        n == Len(bits) \div 6
        body == [k \in 1..n |-> CHARS[SextetValue(bits, k - 1) + 1]]
    IN  body \o [i \in 1..((4 - (n % 4)) % 4) |-> "="]

AlphabetChars == {CHARS[i] : i \in 1..Len(CHARS)}

\* The shape the claim gives per group: four alphabet characters for a full group,
\* two and "==" for a final single byte, three and "=" for a final pair.
Base64Shape(bs, out) ==
    /\ Len(out) = 4 * NumChunks(bs)
    /\ \A k \in 0..(NumChunks(bs) - 1) :
          LET n == Len(Chunk(bs, k))
          IN  /\ \A i \in 1..(n + 1) : out[4*k + i] \in AlphabetChars
              /\ \A i \in (n + 2)..4 : out[4*k + i] = "="

(* C1: for every byte sequence, base64_encode returns the canonical RFC 4648  *)
(* standard-alphabet encoding: "" for the empty input, four alphabet          *)
(* characters per full group of three bytes, two characters and "==" for a    *)
(* final single byte, three characters and "=" for a final pair of bytes.     *)
(* While the loop runs, the result is the encoding of the chunks consumed.    *)
C1_Base64IsRfc4648 ==
    /\ b64_pc = "loop" =>
          b64_result = Rfc4648(SubSeq(bytes, 1, Min(3 * chunk_idx, Len(bytes))))
    /\ b64_pc = "done" =>
          /\ b64_result = Rfc4648(bytes)
          /\ Base64Shape(bytes, b64_result)
          /\ bytes = <<>> => b64_result = <<>>
          /\ bytes = HelloLower => b64_result = <<"a","G","V","s","b","G","8","=">>
          /\ bytes = HelloUpper => b64_result = <<"S","G","V","s","b","G","8","=">>

C1_Witness ==
    /\ b64_pc = "done"
    /\ Len(bytes) = 4
    /\ SubSeq(b64_result, 5, 8) = <<"+","w","=","=">>

(***************************************************************************)
(* Mapper claims                                                           *)
(***************************************************************************)
MapDone == map_result[1] \in {"Ok", "Err"}

(* C2: for every typed value v, of every variant, avro_value_to_json(Union(v)) *)
(* returns the same JSON value as avro_value_to_json(v).                       *)
C2_UnionTransparent ==
    MapDone =>
        /\ avro_value_to_json(AvUnion(0, avro_value)) = map_result
        /\ avro_value.t = "Union" => map_result = avro_value_to_json(avro_value.v)

C2_Witness ==
    /\ MapDone
    /\ avro_value = AvUnion(1, AvString(John))
    /\ map_result = Ok(JString(John))

\* The value the entries es hold under key k (the last such entry).
LastValue(es, k) ==
    es[CHOOSE i \in 1..Len(es) :
          es[i][1] = k /\ \A j \in (i + 1)..Len(es) : es[j][1] # k][2]

\* a maps to j as far as floats go: a non-finite Float or Double, at any depth, is
\* Null in its place; a finite one is the Number of the same value.
RECURSIVE FloatsMapped(_, _)
FloatsMapped(a, j) ==
    CASE a.t \in {"Float", "Double"} ->
            IF IsFinite(a.v)
            THEN j.t = "Number" /\ j.v[1] = "f" /\ j.v[2] = a.v
            ELSE j = JNull
      [] a.t = "Union" -> FloatsMapped(a.v, j)
      [] a.t = "Array" ->
            /\ j.t = "Array"
            /\ Len(j.v) = Len(a.v)
            /\ \A i \in 1..Len(a.v) : FloatsMapped(a.v[i], j.v[i])
      [] a.t \in {"Map", "Record"} ->
            /\ j.t = "Object"
            /\ {e[1] : e \in {j.v[i] : i \in 1..Len(j.v)}}
                  = {f[1] : f \in {a.v[i] : i \in 1..Len(a.v)}}
            /\ \A i \in 1..Len(j.v) : FloatsMapped(LastValue(a.v, j.v[i][1]), j.v[i][2])
      [] OTHER -> TRUE

(* C4: avro_value_to_json never returns an error; a NaN or infinite Float or   *)
(* Double maps to JSON Null, also inside an Array, Map, Record or Union, whose *)
(* other elements are still mapped; a finite one maps to the equal Number.     *)
C4_NeverErrsNonFiniteIsNull ==
    MapDone => IsOk(map_result) /\ FloatsMapped(avro_value, map_result[2])

C4_Witness ==
    /\ MapDone
    /\ avro_value = AvArray(<<AvDouble(NaN), AvInt(30)>>)
    /\ map_result = Ok(JArray(<<JNull, JNumber(<<"i", 30>>)>>))

(* C3: a Record with N uniquely named fields maps to a JSON Object with       *)
(* exactly N keys, in the order of the record's fields, each key holding the  *)
(* mapped value of its field.                                                 *)
C3_RecordKeysInFieldOrder ==
    (MapDone /\ avro_value.t = "Record" /\ UniqueKeys(avro_value.v)) =>
        /\ IsOk(map_result)
        /\ map_result[2].t = "Object"
        /\ Len(map_result[2].v) = Len(avro_value.v)
        /\ \A i \in 1..Len(avro_value.v) :
              /\ map_result[2].v[i][1] = avro_value.v[i][1]
              /\ Ok(map_result[2].v[i][2]) = avro_value_to_json(avro_value.v[i][2])

(***************************************************************************)
(* Writer and pipeline claims                                              *)
(***************************************************************************)
\* The sink write_json_output was given, and what it holds.
SinkContent == IF output_file = "Some" THEN out_file ELSE stdout
SinkIsTerminal == output_file = "None" /\ stdout_tty

StripMarkers(ts) == SelectSeq(ts, LAMBDA x : x \notin StyleMarkers)

CountNewlines(ts) == Len(SelectSeq(ts, LAMBDA x : x = "\n"))

\* Each record's serialization followed by one newline, in order.
PlainLines(recs, p) == Flatten([i \in 1..Len(recs) |-> Serialize(recs[i], p) \o <<"\n">>])

\* The same with each serialization passed through colorize_json.
ColouredLines(recs, p) ==
    Flatten([i \in 1..Len(recs) |-> colorize_json(Serialize(recs[i], p)) \o <<"\n">>])

(* C5: color = true is honoured only if the sink written to is an interactive  *)
(* terminal; for any other sink the bytes written are those written with      *)
(* color = false.                                                              *)
C5_ColorOnlyOnTerminalSink ==
    (pc = "done" /\ ~SinkIsTerminal) =>
        SinkContent = write_json_output(records, pretty, as_array, FALSE, stdout_tty)

(* C6 as claimed: for every pretty and color setting, an empty record sequence *)
(* writes exactly "[]" and a newline when as_array, and nothing otherwise.     *)
C6_Original ==
    (pc = "done" /\ input = <<>>) =>
        SinkContent = IF as_array THEN <<"[", "]", "\n">> ELSE <<>>

(* C6 as amended: an empty record sequence writes nothing when as_array is     *)
(* false; when as_array is true it writes "[]" and one newline if colour is    *)
(* not applied (color false, or standard output not a terminal) and, if it is  *)
(* applied, "[" and "]" each inside the style markers of the colored crate,    *)
(* then one newline: "[]" and a newline once the markers are removed.          *)
C6_EmptyRecords ==
    (pc = "done" /\ input = <<>>) =>
        /\ ~as_array => SinkContent = <<>>
        /\ as_array => StripMarkers(SinkContent) = <<"[", "]", "\n">>
        /\ (as_array /\ ~(color /\ stdout_tty)) => SinkContent = <<"[", "]", "\n">>
        /\ (as_array /\ color /\ stdout_tty) =>
              SinkContent = Paint("blue", <<"[">>) \o Paint("blue", <<"]">>) \o <<"\n">>

C6_Witness ==
    /\ pc = "done"
    /\ input = <<>>
    /\ as_array
    /\ color /\ stdout_tty /\ should_colorize
    /\ SinkContent = <<"ESC[34m", "[", "ESC[0m", "ESC[34m", "]", "ESC[0m", "\n">>

(* C7 as claimed: with as_array false, N records are written as each record's  *)
(* serialization followed by one newline, in input order, and nothing else;    *)
(* with pretty false that is N lines, no compact serialization holding a raw   *)
(* newline.                                                                    *)
C7_Original ==
    (pc = "done" /\ ~as_array) =>
        /\ SinkContent = PlainLines(records, pretty)
        /\ ~pretty =>
              /\ CountNewlines(SinkContent) = Len(input)
              /\ \A i \in 1..Len(records) : CountNewlines(to_string(records[i])) = 0

(* C7 as amended: with as_array false, N records are written in input order,   *)
(* each as its serialization - passed through colorize_json when color is true *)
(* and standard output is a terminal - followed by one newline, and nothing    *)
(* else, so that the text without style markers is each serialization and a    *)
(* newline; with pretty false that is N lines, no compact serialization        *)
(* holding a raw newline.                                                      *)
C7_NdjsonLines ==
    (pc = "done" /\ ~as_array) =>
        /\ Len(records) = Len(input)
        /\ SinkContent =
              IF color /\ stdout_tty THEN ColouredLines(records, pretty)
              ELSE PlainLines(records, pretty)
        /\ StripMarkers(SinkContent) = PlainLines(records, pretty)
        /\ ~pretty =>
              /\ CountNewlines(SinkContent) = Len(input)
              /\ \A i \in 1..Len(records) : CountNewlines(to_string(records[i])) = 0

C7_Witness ==
    /\ pc = "done"
    /\ ~as_array /\ ~pretty
    /\ Len(input) = 2
    /\ \E i \in 1..2 :
          /\ records[i].t = "Object"
          /\ \E j \in 1..Len(records[i].v) : records[i].v[j][2] = JString(Tricky)
    /\ CountNewlines(SinkContent) = 2
    /\ SinkContent = PlainLines(records, FALSE)

DecodeError == "Failed to read Avro record"

C9_State ==
    /\ (out_opened \/ stdout # <<>> \/ out_file # OldContent) =>
          /\ next_idx = Len(input)
          /\ Len(records) = Len(input)
          /\ \A i \in 1..Len(input) : input[i][1] = "Ok"
    /\ err = DecodeError =>
          /\ pc = "error"
          /\ input[next_idx + 1][1] = "Err"
          /\ Len(records) = next_idx
          /\ ~out_opened /\ out_file = OldContent /\ stdout = <<>>

C9_Step ==
    /\ pc # "error"
    /\ (pc = "reading" /\ next_idx < Len(input) /\ input[next_idx + 1][1] = "Err") =>
          pc' = "error" /\ err' = DecodeError

(* C9: output happens only after every record is decoded and mapped: nothing is *)
(* opened, truncated or written before; when the decoding of record k fails,    *)
(* the call stops there and returns that error, k-1 records mapped, the output  *)
(* never opened and no byte written, and no step follows.                       *)
C9_OutputOnlyAfterAllDecoded == []C9_State /\ [][C9_Step]_vars

C9_Witness ==
    /\ pc = "error"
    /\ err = DecodeError
    /\ next_idx = 1
    /\ Len(records) = 1
    /\ output_file = "Some"
    /\ out_file = OldContent

(***************************************************************************)
(* Colorizer claims                                                        *)
(***************************************************************************)
C8_State ==
    /\ pos <= Len(json_str)
    /\ Len(arms) = pos
    /\ StripMarkers(result) = SubSeq(json_str, 1, pos)
    /\ col_pc = "done" =>
          /\ pos = Len(json_str)
          /\ StripMarkers(result) = json_str
          /\ result = colorize_json(json_str)
    /\ col_pc = "done" \/ ENABLED (ColorizeStep \/ ColorizeReturn)

C8_Step == pos' > pos \/ (pos = Len(json_str) /\ col_pc' = "done")

(* C8: colorize_json keeps every input character, in order: without the style *)
(* markers the result is the input (at every point of the scan, the part      *)
(* consumed, each character consumed once by the loop or by a look-ahead),    *)
(* and the scan terminates: every iteration consumes a character and the loop *)
(* returns when none is left.                                                 *)
C8_CharactersPreserved == []C8_State /\ [][C8_Step]_vars

C8_Witness ==
    /\ col_pc = "done"
    /\ should_colorize
    /\ json_str = <<"-", "1", "e">>
    /\ result = <<"ESC[33m", "-", "1", "e", "ESC[0m">>

\* RFC 8259: the quotation marks of text that delimit strings are those after an
\* even number of consecutive backslashes.
RECURSIVE BackslashesBefore(_, _)
BackslashesBefore(text, i) ==
    IF i > 1 /\ text[i - 1] = "\\" THEN 1 + BackslashesBefore(text, i - 1) ELSE 0

IsDelimiter(text, i) == text[i] = "\"" /\ BackslashesBefore(text, i) % 2 = 0

\* Character i of a JSON text is strictly inside a string literal.
InsideString(text, i) ==
    /\ ~IsDelimiter(text, i)
    /\ Cardinality({q \in 1..(i - 1) : IsDelimiter(text, q)}) % 2 = 1

\* The part consumed is styled as the claim says, and the scan ends outside a string.
StringsStyled ==
    /\ \A i \in 1..pos : InsideString(json_str, i) => arms[i] \in {"string", "escape"}
    /\ col_pc = "done" => ~in_string /\ ~escape_next

C10_State ==
    /\ escape_next => in_string
    /\ StringsStyled \/ json_str \notin WellFormedTexts

C10_Step ==
    pos < Len(json_str) =>
        IF json_str[pos + 1] = "\""
        THEN (in_string' # in_string) <=> ~escape_next
        ELSE in_string' = in_string

(* C10: throughout the scan escape_next implies in_string, and a quotation mark *)
(* toggles in_string exactly when no unconsumed escape marker precedes it (no   *)
(* other character changes it); so in well-formed JSON every character strictly *)
(* inside a string literal is styled as string content or escape marker, and    *)
(* the scan ends with in_string and escape_next false.                          *)
C10_StringStateMachine == []C10_State /\ [][C10_Step]_vars

C10_Witness ==
    /\ col_pc = "done"
    /\ json_str \in WellFormedTexts
    /\ \E i \in 2..Len(json_str) :
          /\ json_str[i] = "\"" /\ json_str[i - 1] = "\\"
          /\ arms[i] = "string" /\ arms[i - 1] = "escape"
    /\ \E i \in 1..Len(json_str) : json_str[i] = "{" /\ arms[i] = "string"

====
